---------------------------- MODULE Spec2Model ----------------------------
(***************************************************************************)
(* Model of gendata/main.py: the cluster sampler (generate_cluster,        *)
(* generate_pairs), the distance engine (haversine_distance) and the two   *)
(* commands that compose them (generate, calculate).                       *)
(*                                                                         *)
(* Numbers.  Angles in degrees are integers.  Every other float64 of the   *)
(* program (radians, sines, distances, averages) is a fixed-point integer  *)
(* with Scale units per 1.0, and every float operation truncates toward    *)
(* zero, so that negation commutes with it as it does in IEEE arithmetic.  *)
(* A float that may be NaN is a record [nan, val].                         *)
(***************************************************************************)
EXTENDS Integers, Sequences, FiniteSets, TLC

\* ------------------------------------------------------------- bounds
\* CLI argument `pairs` ranges over 0 .. MaxPairs.
MaxPairs == 4
\* CLI option `--clusters` ranges over -MaxNegClusters .. MaxClusters.
MaxClusters == 3
MaxNegClusters == 1

\* ---------------------------------------------------- program constants
PHI_MIN_DEGREES == -180
PHI_MAX_DEGREES == 180
THETA_MIN_DEGREES == -90
THETA_MAX_DEGREES == 90

\* Fixed-point resolution of a float64: Scale units per 1.0.
Scale == 1000
\* pi, in Scale units (np.radians multiplies by pi / 180).
PI == 3142

\* --------------------------------------------------------- float helpers
Abs(x) == IF x < 0 THEN 0 - x ELSE x

\* Float division a / b for b # 0: rounds toward zero, so (-a)/b = -(a/b).
TruncDiv(a, b) ==
    LET q == Abs(a) \div Abs(b)
    IN  IF (a < 0) = (b < 0) THEN q ELSE 0 - q

\* Float product of two fixed-point numbers.
FMul(a, b) == TruncDiv(a * b, Scale)

NaN == [nan |-> TRUE, val |-> 0]
Num(v) == [nan |-> FALSE, val |-> v]

\* IEEE equality of two floats: NaN equals nothing, itself included.
FloatEq(a, b) == ~a.nan /\ ~b.nan /\ a.val = b.val

\* np.radians: degrees (integer) to radians (fixed point).
Radians(d) == TruncDiv(d * PI, 180)

\* np.sin on [0, pi] (Bhaskara's rational approximation, fixed point).
SinPos(x) ==
    LET p == (x * (PI - x)) \div Scale
    IN  (16 * p * Scale) \div (5 * ((PI * PI) \div Scale) - 4 * p)

\* np.sin on [-pi, pi]: odd.
Sin(x) == IF x < 0 THEN 0 - SinPos(0 - x) ELSE SinPos(x)

\* np.cos on [-pi/2, pi/2]: cos(x) = sin(x + pi/2).
Cos(x) == SinPos(x + PI \div 2)

\* Largest r in lo .. hi with r * r <= v   (lo * lo <= v assumed).
RECURSIVE SqrtSearch(_, _, _)
SqrtSearch(v, lo, hi) ==
    IF lo = hi THEN lo
    ELSE LET mid == (lo + hi + 1) \div 2
         IN  IF mid * mid <= v THEN SqrtSearch(v, mid, hi)
             ELSE SqrtSearch(v, lo, mid - 1)

\* np.sqrt of a fixed-point number in [0, 4].
Sqrt(a) == SqrtSearch(a * Scale, 0, 2 * Scale)

\* Largest x in lo .. hi with Sin(x) <= s   (Sin(lo) <= s assumed).
RECURSIVE AsinSearch(_, _, _)
AsinSearch(s, lo, hi) ==
    IF lo = hi THEN lo
    ELSE LET mid == (lo + hi + 1) \div 2
         IN  IF SinPos(mid) <= s THEN AsinSearch(s, mid, hi)
             ELSE AsinSearch(s, lo, mid - 1)

\* np.asin of a fixed-point number s >= 0: NaN outside the domain [0, 1].
Asin(s) == IF s > Scale THEN NaN ELSE Num(AsinSearch(s, 0, PI \div 2))


\* ------------------------------------------------------ distance engine
\* sin(dthetas / 2) ** 2, with dthetas = thetas1 - thetas0 (radians).
RootTerm0(t0, t1) ==
    LET h == Sin(TruncDiv(t1 - t0, 2)) IN FMul(h, h)

\* RootTerm1 with thetas0 used twice.
RootTerm1SameTheta(dphi_r, t0, t1) ==
    LET h == Sin(TruncDiv(dphi_r, 2))
    IN  FMul(FMul(Cos(t0), Cos(t0)), FMul(h, h))

\* cos(thetas0) * cos(thetas1) * sin(dphis / 2) ** 2.
RootTerm1(dphi_r, t0, t1) ==
    LET h == Sin(TruncDiv(dphi_r, 2))
    IN  FMul(FMul(Cos(t0), Cos(t1)), FMul(h, h))

\* The distance of one pair (degrees in, fixed-point length out).
Haversine1(phi0, theta0, phi1, theta1, r) ==
    LET dphi_r == Radians(phi0 - phi1)
        t0 == Radians(theta0)
        t1 == Radians(theta1)
        as == Asin(Sqrt(RootTerm0(t0, t1) + RootTerm1(dphi_r, t0, t1)))
    IN  IF as.nan THEN NaN ELSE Num(2 * r * as.val)

\* haversine_distance: one distance per aligned pair.
haversine_distance(phis0, thetas0, phis1, thetas1, r) ==
    [k \in DOMAIN phis0 |->
        Haversine1(phis0[k], thetas0[k], phis1[k], thetas1[k], r)]

RECURSIVE SumVals(_)
SumVals(ds) == IF ds = <<>> THEN 0 ELSE Head(ds).val + SumVals(Tail(ds))

\* np.average: NaN for an empty array (mean of an empty slice) and for an
\* array that holds a NaN.
Average(ds) ==
    IF ds = <<>> \/ (\E k \in DOMAIN ds : ds[k].nan) THEN NaN
    ELSE Num(TruncDiv(SumVals(ds), Len(ds)))

\* ------------------------------------------------------ cluster sampler
\* Clip without the upper bound.
ClipLowOnly(v, lo, hi) == IF v < lo THEN lo ELSE v

\* np.clip of one value.
Clip(v, lo, hi) == IF v < lo THEN lo ELSE IF v > hi THEN hi ELSE v

\* np.clip of an (n, 2) array.
ClipArray(a, lo, hi) ==
    [r \in DOMAIN a |-> [c \in DOMAIN a[r] |-> Clip(a[r][c], lo, hi)]]

\* np.random.uniform(low, high) draws from [low, high).  The model samples it
\* at two values: the low end, and three quarters of the way up.
UniformHigh(low, high) == low + TruncDiv(3 * (high - low), 4)

UniformSamples(low, high) == {low, UniformHigh(low, high)}

\* The rows np.random.uniform(low, high, (n, 2)) is sampled at: the two
\* samples, in either slot order.
UniformRows(low, high) ==
    {<<low, UniformHigh(low, high)>>, <<UniformHigh(low, high), low>>}

\* np.random.uniform(low, high, (n, 2)).
UniformArrays(low, high, n) == [1 .. n -> UniformRows(low, high)]

\* generate_cluster, given the two arrays it draws.
generate_cluster(uphis, uthetas, phi, theta) ==
    LET phis_raw == [r \in DOMAIN uphis |-> [c \in 1 .. 2 |-> phi + uphis[r][c]]]
        thetas_raw == [r \in DOMAIN uthetas |-> [c \in 1 .. 2 |-> theta + uthetas[r][c]]]
    IN  [phis_raw |-> phis_raw,
         thetas_raw |-> thetas_raw,
         phis |-> ClipArray(phis_raw, PHI_MIN_DEGREES, PHI_MAX_DEGREES),
         thetas |-> ClipArray(thetas_raw, THETA_MIN_DEGREES, THETA_MAX_DEGREES)]

\* Linspace without the end point (np.linspace(..., endpoint=False)).
LinspaceNoEndpoint(stop, num) ==
    [k \in 1 .. num |-> [n |-> (k - 1) * stop, d |-> num]]

\* np.linspace(0, stop, num): the points k * stop / (num - 1), k = 0 .. num-1,
\* as exact fractions [n / d]; num = 1 gives the start alone.
Linspace(stop, num) ==
    [k \in 1 .. num |->
        IF num = 1 THEN [n |-> 0, d |-> 1]
        ELSE [n |-> (k - 1) * stop, d |-> num - 1]]

\* np.ceil in place of np.floor.
Ceil(q) == (q.n + q.d - 1) \div q.d

\* np.floor of a non-negative fraction.
Floor(q) == q.n \div q.d

FloorAll(qs) == [k \in DOMAIN qs |-> Floor(qs[k])]

\* np.diff.
Diff(xs) == [k \in 1 .. Len(xs) - 1 |-> xs[k + 1] - xs[k]]

\* n_pairs_per_cluster of generate_pairs.
PairsPerCluster(n_pairs_, n_clusters_) ==
    Diff(FloorAll(Linspace(n_pairs_, n_clusters_ + 1)))

\* A sampler that accepts a negative size.
NoDimensionCheck(size) == FALSE

\* np.random.uniform(..., size) raises ValueError for a negative size.
NegativeDimensions(size) == size < 0

\* (MAX - MIN) / n_clusters raises ZeroDivisionError for n_clusters = 0.
ZeroDivision(n_clusters_) == n_clusters_ = 0

\* Line 76 left out.
EffectiveClustersSame(n_clusters_) == n_clusters_

\* n_clusters = 2 if n_clusters == 1 else n_clusters
EffectiveClusters(n_clusters_) == IF n_clusters_ = 1 THEN 2 ELSE n_clusters_

\* for i in range(n_clusters).
LoopBoundAll(n_clusters_) == n_clusters_

\* for i in range(n_clusters - 1): the number of iterations.
LoopBound(n_clusters_) == n_clusters_ - 1

RECURSIVE Sum(_)
Sum(xs) == IF xs = <<>> THEN 0 ELSE Head(xs) + Sum(Tail(xs))

\* np.vstack of a non-empty list of (n, 2) arrays.
RECURSIVE VStack(_)
VStack(arrays) ==
    IF arrays = <<>> THEN <<>> ELSE Head(arrays) \o VStack(Tail(arrays))

\* a[:, c] (c is 1 or 2 here, for Python's 0 and 1).
Column(a, c) == [r \in DOMAIN a |-> a[r][c]]

\* --------------------------------------------------------------- JSON
DigitChars == <<"0", "1", "2", "3", "4", "5", "6", "7", "8", "9">>

RECURSIVE Digits(_)
Digits(n) ==
    IF n < 10 THEN <<DigitChars[n + 1]>>
    ELSE Append(Digits(n \div 10), DigitChars[(n % 10) + 1])

\* json.dump of a finite number.
FormatNumber(v) == IF v < 0 THEN <<"-">> \o Digits(0 - v) ELSE Digits(v)

DigitValue(ch) == (CHOOSE d \in 1 .. 10 : DigitChars[d] = ch) - 1

RECURSIVE ParseDigits(_, _)
ParseDigits(s, acc) ==
    IF s = <<>> THEN acc
    ELSE ParseDigits(Tail(s), 10 * acc + DigitValue(Head(s)))

\* json.load of a finite number.
ParseNumber(s) ==
    IF Head(s) = "-" THEN 0 - ParseDigits(Tail(s), 0) ELSE ParseDigits(s, 0)

\* json.dump / json.load of a float that may be NaN.
FormatFloat(f) == IF f.nan THEN <<"N", "a", "N">> ELSE FormatNumber(f.val)
ParseFloat(s) == IF s = <<"N", "a", "N">> THEN NaN ELSE Num(ParseNumber(s))

\* The "pairs" list written by generate: zip(phis, thetas) in order.
DumpPairs(phis_, thetas_) ==
    [k \in DOMAIN phis_ |->
        [x0 |-> FormatNumber(phis_[k][1]),
         y0 |-> FormatNumber(thetas_[k][1]),
         x1 |-> FormatNumber(phis_[k][2]),
         y1 |-> FormatNumber(thetas_[k][2])]]

\* The result record written by generate.
DumpResult(phis_, thetas_, avg, r) ==
    [pairs |-> DumpPairs(phis_, thetas_),
     avg_dist |-> FormatFloat(avg),
     radius |-> FormatNumber(r)]

\* The arrays calculate fills from in_file["pairs"].
LoadField(in_pairs, field) ==
    [k \in DOMAIN in_pairs |-> ParseNumber(in_pairs[k][field])]

\* -------------------------------------------------------------- state
\* The values of --radius the generate command is run with.
Radii == {1, 2}

VARIABLES
    pc,                  \* position in the generate / calculate commands
    err,                 \* the exception that ended the command, or "none"
    pairs,               \* generate: the `pairs` argument (n_pairs)
    clusters,            \* generate: the --clusters option, as passed
    radius,              \* generate: the --radius option
    n_clusters,          \* generate_pairs: the local n_clusters (line 76 rebinds it)
    phis_center,         \* generate_pairs: cluster center longitudes
    thetas_center,       \* generate_pairs: cluster center latitudes
    n_pairs_per_cluster, \* generate_pairs: the partition of n_pairs
    dphi,                \* generate_pairs: longitudinal deviation
    dtheta,              \* generate_pairs: latitudinal deviation
    i,                   \* generate_pairs: the loop variable (next value of i)
    sampled,             \* the values i took in the loop body, in order
    raw_all,             \* per sampled cluster, the arrays before np.clip
    phis_all,            \* generate_pairs: list of the clusters' longitudes
    thetas_all,          \* generate_pairs: list of the clusters' latitudes
    phis,                \* generate: the returned longitudes, (n, 2)
    thetas,              \* generate: the returned latitudes, (n, 2)
    distances,           \* generate: haversine distances
    avg_dist,            \* generate: np.average(distances)
    file,                \* the JSON file written by generate
    calc                 \* calculate: its local arrays and results

vars == <<pc, err, pairs, clusters, radius, n_clusters, phis_center,
          thetas_center, n_pairs_per_cluster, dphi, dtheta, i, sampled,
          raw_all, phis_all, thetas_all, phis, thetas, distances, avg_dist,
          file, calc>>

gp_vars == <<n_clusters, phis_center, thetas_center, n_pairs_per_cluster,
             dphi, dtheta, i, sampled, raw_all, phis_all, thetas_all>>

NoFile == [pairs |-> <<>>, avg_dist |-> <<>>, radius |-> <<>>]

NoCalc == [phis_0 |-> <<>>, phis_1 |-> <<>>, thetas_0 |-> <<>>,
           thetas_1 |-> <<>>, radius |-> 0, distances |-> <<>>,
           avg_dist |-> NaN, read_avg_dist |-> NaN]

Init ==
    /\ pc = "idle"
    /\ err = "none"
    /\ pairs = 0
    /\ clusters = 0
    /\ radius = 0
    /\ n_clusters = 0
    /\ phis_center = <<>>
    /\ thetas_center = <<>>
    /\ n_pairs_per_cluster = <<>>
    /\ dphi = 0
    /\ dtheta = 0
    /\ i = 0
    /\ sampled = <<>>
    /\ raw_all = <<>>
    /\ phis_all = <<>>
    /\ thetas_all = <<>>
    /\ phis = <<>>
    /\ thetas = <<>>
    /\ distances = <<>>
    /\ avg_dist = NaN
    /\ file = NoFile
    /\ calc = NoCalc

\* The exception `e` ends the command.
Raise(e) ==
    /\ pc' = "error"
    /\ err' = e

\* ------------------------------------------------------------ actions
\* generate, lines 146-163: the command is invoked and calls generate_pairs.
GenerateCall ==
    /\ pc = "idle"
    /\ \E p \in 0 .. MaxPairs, c \in (0 - MaxNegClusters) .. MaxClusters, r \in Radii :
          /\ pairs' = p
          /\ clusters' = c
          /\ radius' = r
          /\ n_clusters' = c
    /\ pc' = "gp_centers"
    /\ UNCHANGED <<err, phis_center, thetas_center, n_pairs_per_cluster, dphi,
                   dtheta, i, sampled, raw_all, phis_all, thetas_all, phis,
                   thetas, distances, avg_dist, file, calc>>

\* generate_pairs, lines 68-69: the cluster centers are drawn (the longitudes
\* at both sample values, the latitudes at the upper one).
DrawCenters ==
    /\ pc = "gp_centers"
    /\ IF NegativeDimensions(n_clusters)
       THEN /\ Raise("ValueError")
            /\ UNCHANGED <<phis_center, thetas_center>>
       ELSE /\ phis_center' \in
                 [1 .. n_clusters -> UniformSamples(PHI_MIN_DEGREES, PHI_MAX_DEGREES)]
            /\ thetas_center' \in
                 [1 .. n_clusters -> {UniformHigh(THETA_MIN_DEGREES, THETA_MAX_DEGREES)}]
            /\ pc' = "gp_partition"
            /\ UNCHANGED err
    /\ UNCHANGED <<pairs, clusters, radius, n_clusters, n_pairs_per_cluster,
                   dphi, dtheta, i, sampled, raw_all, phis_all, thetas_all,
                   phis, thetas, distances, avg_dist, file, calc>>

\* generate_pairs, lines 71-81: the partition, the deviations, the rebinding of
\* n_clusters, the two assertions and the empty result lists.
Partition ==
    /\ pc = "gp_partition"
    /\ LET counts == PairsPerCluster(pairs, n_clusters)
       IN  IF ZeroDivision(n_clusters)
           THEN /\ Raise("ZeroDivisionError")
                /\ UNCHANGED <<n_clusters, n_pairs_per_cluster, dphi, dtheta>>
           ELSE IF \/ Len(phis_center) # Len(thetas_center)
                   \/ Len(counts) # Len(phis_center)
           THEN /\ Raise("AssertionError")
                /\ UNCHANGED <<n_clusters, n_pairs_per_cluster, dphi, dtheta>>
           ELSE /\ n_pairs_per_cluster' = counts
                /\ dphi' = TruncDiv(PHI_MAX_DEGREES - PHI_MIN_DEGREES, n_clusters)
                /\ dtheta' = TruncDiv(THETA_MAX_DEGREES - THETA_MIN_DEGREES, n_clusters)
                /\ n_clusters' = EffectiveClusters(n_clusters)
                /\ pc' = "gp_loop"
                /\ UNCHANGED err
    /\ i' = 0
    /\ phis_all' = <<>>
    /\ thetas_all' = <<>>
    /\ UNCHANGED <<pairs, clusters, radius, phis_center, thetas_center, sampled,
                   raw_all, phis, thetas, distances, avg_dist, file, calc>>

\* generate_pairs, lines 83-93: one iteration of the loop, cluster i (the
\* arrays are 0-based in the code and 1-based here).
SampleCluster ==
    /\ pc = "gp_loop"
    /\ i < LoopBound(n_clusters)
    /\ IF i + 1 > Len(n_pairs_per_cluster)
       THEN /\ Raise("IndexError")
            /\ UNCHANGED <<i, sampled, raw_all, phis_all, thetas_all>>
       ELSE \E uphis \in UniformArrays(0 - dphi, dphi, n_pairs_per_cluster[i + 1]),
               uthetas \in UniformArrays(0 - dtheta, dtheta, n_pairs_per_cluster[i + 1]) :
               LET cl == generate_cluster(uphis, uthetas,
                                          phis_center[i + 1], thetas_center[i + 1])
               IN  /\ phis_all' = Append(phis_all, cl.phis)
                   /\ thetas_all' = Append(thetas_all, cl.thetas)
                   /\ raw_all' = Append(raw_all,
                                   [phis |-> cl.phis_raw, thetas |-> cl.thetas_raw])
                   /\ sampled' = Append(sampled, i)
                   /\ i' = i + 1
                   /\ UNCHANGED <<pc, err>>
    /\ UNCHANGED <<pairs, clusters, radius, n_clusters, phis_center,
                   thetas_center, n_pairs_per_cluster, dphi, dtheta, phis,
                   thetas, distances, avg_dist, file, calc>>

\* generate_pairs, line 95, and generate, line 161: the loop is over, the
\* clusters are stacked and returned (np.vstack raises on an empty list).
ReturnPairs ==
    /\ pc = "gp_loop"
    /\ ~(i < LoopBound(n_clusters))
    /\ IF phis_all = <<>>
       THEN /\ Raise("ValueError")
            /\ UNCHANGED <<phis, thetas>>
       ELSE /\ phis' = VStack(phis_all)
            /\ thetas' = VStack(thetas_all)
            /\ pc' = "gen_math"
            /\ UNCHANGED err
    /\ UNCHANGED <<pairs, clusters, radius, gp_vars, distances, avg_dist, file,
                   calc>>

\* generate, lines 167-174: the distances of the pairs and their average.
GenerateMath ==
    /\ pc = "gen_math"
    /\ LET ds == haversine_distance(Column(phis, 1), Column(thetas, 1),
                                    Column(phis, 2), Column(thetas, 2), radius)
       IN  /\ distances' = ds
           /\ avg_dist' = Average(ds)
    /\ pc' = "gen_save"
    /\ UNCHANGED <<err, pairs, clusters, radius, gp_vars, phis, thetas, file,
                   calc>>

\* generate, lines 190-205: the result record is written as JSON.
GenerateSave ==
    /\ pc = "gen_save"
    /\ file' = DumpResult(phis, thetas, avg_dist, radius)
    /\ pc' = "saved"
    /\ UNCHANGED <<err, pairs, clusters, radius, gp_vars, phis, thetas,
                   distances, avg_dist, calc>>

\* calculate, lines 210-245: the record is read back, the arrays are filled
\* pair by pair and the average distance is computed again.
Calculate ==
    /\ pc = "saved"
    /\ LET in_pairs == file.pairs
           phis_0 == LoadField(in_pairs, "x0")
           phis_1 == LoadField(in_pairs, "x1")
           thetas_0 == LoadField(in_pairs, "y0")
           thetas_1 == LoadField(in_pairs, "y1")
           r == ParseNumber(file.radius)
           ds == haversine_distance(phis_0, thetas_0, phis_1, thetas_1, r)
       IN  calc' = [phis_0 |-> phis_0, phis_1 |-> phis_1,
                    thetas_0 |-> thetas_0, thetas_1 |-> thetas_1,
                    radius |-> r, distances |-> ds, avg_dist |-> Average(ds),
                    read_avg_dist |-> ParseFloat(file.avg_dist)]
    /\ pc' = "calc_done"
    /\ UNCHANGED <<err, pairs, clusters, radius, gp_vars, phis, thetas,
                   distances, avg_dist, file>>

Next ==
    \/ GenerateCall
    \/ DrawCenters
    \/ Partition
    \/ SampleCluster
    \/ ReturnPairs
    \/ GenerateMath
    \/ GenerateSave
    \/ Calculate

Spec == Init /\ [][Next]_vars

\* ---------------------------------------------------------- properties
\* generate_pairs has returned to generate.
Returned == pc \in {"gen_math", "gen_save", "saved", "calc_done"}

\* Lines 71-81 of generate_pairs have run without raising.
Partitioned == pc = "gp_loop" \/ Returned

\* generate has computed the distances and their average.
Averaged == pc \in {"gen_save", "saved", "calc_done"}

InPhiRange(v) == PHI_MIN_DEGREES <= v /\ v <= PHI_MAX_DEGREES
InThetaRange(v) == THETA_MIN_DEGREES <= v /\ v <= THETA_MAX_DEGREES

\* The 0-based index of the last partitioned cluster.
LastCluster == clusters - 1

\* The partition counts of the clusters sampled so far, in order.
SampledCounts == [k \in DOMAIN sampled |-> n_pairs_per_cluster[sampled[k] + 1]]

\* C1: for n_clusters >= 1, generate_pairs returns exactly n_pairs rows of 2
\* slots in both arrays.  (Violated: the last cluster's rows are missing.)
C1_ReturnsNPairs ==
    (Returned /\ clusters >= 1) =>
        /\ Len(phis) = pairs
        /\ Len(thetas) = pairs
        /\ \A r \in DOMAIN phis : Len(phis[r]) = 2 /\ Len(thetas[r]) = 2

\* C2: every center and every emitted coordinate (both slots of every pair)
\* has longitude in [-180, 180] and latitude in [-90, 90]; an emitted value is
\* the drawn value when that is in range and the bound it crossed otherwise;
\* and a cluster emits as many rows as were drawn for it, its partition count.
C2_CoordinatesClamped ==
    /\ \A k \in DOMAIN phis_center : InPhiRange(phis_center[k])
    /\ \A k \in DOMAIN thetas_center : InThetaRange(thetas_center[k])
    /\ \A r \in DOMAIN phis : \A c \in 1 .. 2 :
          InPhiRange(phis[r][c]) /\ InThetaRange(thetas[r][c])
    /\ Len(phis_all) = Len(sampled) /\ Len(thetas_all) = Len(sampled)
    /\ \A k \in DOMAIN phis_all :
          /\ Len(phis_all[k]) = SampledCounts[k]
          /\ Len(thetas_all[k]) = SampledCounts[k]
          /\ Len(raw_all[k].phis) = SampledCounts[k]
          /\ Len(raw_all[k].thetas) = SampledCounts[k]
          /\ \A r \in DOMAIN phis_all[k] : \A c \in 1 .. 2 :
                LET rp == raw_all[k].phis[r][c]
                    rt == raw_all[k].thetas[r][c]
                    p == phis_all[k][r][c]
                    t == thetas_all[k][r][c]
                IN  /\ InPhiRange(p) /\ InThetaRange(t)
                    /\ InPhiRange(rp) => p = rp
                    /\ rp < PHI_MIN_DEGREES => p = PHI_MIN_DEGREES
                    /\ rp > PHI_MAX_DEGREES => p = PHI_MAX_DEGREES
                    /\ InThetaRange(rt) => t = rt
                    /\ rt < THETA_MIN_DEGREES => t = THETA_MIN_DEGREES
                    /\ rt > THETA_MAX_DEGREES => t = THETA_MAX_DEGREES

\* A returned cluster in which one drawn longitude lay below the range and
\* was emitted as the lower bound, one drawn latitude lay above the range and
\* one below and were emitted as the bounds, and one drawn longitude lay in
\* the range and was emitted as drawn.
C2_Witness ==
    /\ Returned
    /\ \E k \in DOMAIN raw_all :
          /\ \E r \in DOMAIN raw_all[k].phis : \E c \in 1 .. 2 :
                /\ raw_all[k].phis[r][c] < PHI_MIN_DEGREES
                /\ phis_all[k][r][c] = PHI_MIN_DEGREES
          /\ \E r \in DOMAIN raw_all[k].thetas : \E c \in 1 .. 2 :
                /\ raw_all[k].thetas[r][c] > THETA_MAX_DEGREES
                /\ thetas_all[k][r][c] = THETA_MAX_DEGREES
          /\ \E r \in DOMAIN raw_all[k].thetas : \E c \in 1 .. 2 :
                /\ raw_all[k].thetas[r][c] < THETA_MIN_DEGREES
                /\ thetas_all[k][r][c] = THETA_MIN_DEGREES
          /\ \E r \in DOMAIN raw_all[k].phis : \E c \in 1 .. 2 :
                /\ raw_all[k].phis[r][c] > PHI_MIN_DEGREES
                /\ raw_all[k].phis[r][c] < PHI_MAX_DEGREES
                /\ phis_all[k][r][c] = raw_all[k].phis[r][c]
          /\ Len(phis_all[k]) = n_pairs_per_cluster[sampled[k] + 1]

\* C3: calculate reads the pairs back in the same order and slots, uses the
\* stored radius, and its recomputed average equals the stored avg_dist.
\* (Violated: the average of a record with no pairs is NaN.)
C3_RoundTrip ==
    pc = "calc_done" =>
        /\ calc.phis_0 = Column(phis, 1)
        /\ calc.thetas_0 = Column(thetas, 1)
        /\ calc.phis_1 = Column(phis, 2)
        /\ calc.thetas_1 = Column(thetas, 2)
        /\ calc.radius = radius
        /\ FloatEq(calc.avg_dist, calc.read_avg_dist)

\* C4: the distances generate and calculate computed are the distances
\* haversine_distance gives with the two points of every pair swapped.
C4_Symmetric ==
    /\ Averaged =>
          distances = haversine_distance(Column(phis, 2), Column(thetas, 2),
                                         Column(phis, 1), Column(thetas, 1), radius)
    /\ pc = "calc_done" =>
          calc.distances = haversine_distance(calc.phis_1, calc.thetas_1,
                                              calc.phis_0, calc.thetas_0, calc.radius)

\* Distances were computed for a pair of points that differ in longitude and
\* in the cosine of their latitude, and are a positive distance apart.
C4_Witness ==
    /\ pc = "gen_save"
    /\ \E k \in DOMAIN distances :
          /\ ~distances[k].nan /\ distances[k].val > 0
          /\ phis[k][1] # phis[k][2]
          /\ Cos(Radians(thetas[k][1])) # Cos(Radians(thetas[k][2]))

\* C5: with n_clusters <= 0 generate_pairs never gets as far as its sampling
\* loop: it is drawing centers or partitioning, or it has raised; nothing was
\* sampled, returned or written; and it does not stop short of raising.
C5_NonPositiveFailsFast ==
    (clusters <= 0 /\ pc # "idle") =>
        /\ pc \in {"gp_centers", "gp_partition", "error"}
        /\ pc = "error" => err \in {"ValueError", "ZeroDivisionError"}
        /\ pc # "error" => ENABLED (DrawCenters \/ Partition)
        /\ sampled = <<>> /\ raw_all = <<>>
        /\ phis_all = <<>> /\ thetas_all = <<>>
        /\ phis = <<>> /\ thetas = <<>>
        /\ file = NoFile

\* generate_pairs(n_pairs >= 1, n_clusters = 0) has raised.
C5_Witness ==
    /\ pc = "error"
    /\ clusters = 0
    /\ pairs >= 1
    /\ err = "ZeroDivisionError"

C7_PartitionSums ==
    (Partitioned /\ clusters >= 1) =>
        /\ Len(n_pairs_per_cluster) = clusters
        /\ \A k \in DOMAIN n_pairs_per_cluster :
              /\ n_pairs_per_cluster[k] \in Nat
              /\ n_pairs_per_cluster[k] =
                    (k * pairs) \div clusters - ((k - 1) * pairs) \div clusters
        /\ Sum(n_pairs_per_cluster) = pairs

\* A partition of a pair count that the cluster count does not divide.
C7_Witness ==
    /\ pc = "gp_loop"
    /\ pairs = 4
    /\ clusters = 3
    /\ n_pairs_per_cluster = <<1, 1, 2>>

\* C8 as stated: the larger counts are at the lower indices.  (Violated:
\* 1 pair over 2 clusters is partitioned as 0, 1.)
C8_EarlierAbsorb ==
    (Partitioned /\ clusters >= 1) =>
        \A a, b \in DOMAIN n_pairs_per_cluster :
            a < b => n_pairs_per_cluster[a] >= n_pairs_per_cluster[b]

\* C8 as amended: the counts differ by at most one, the first cluster has a
\* smallest count and the last cluster a largest one, and when n_clusters does
\* not divide n_pairs the last count is larger than the first.
C8_LastAbsorbs ==
    (Partitioned /\ clusters >= 1) =>
        LET first == n_pairs_per_cluster[1]
            last == n_pairs_per_cluster[clusters]
        IN  /\ \A k \in DOMAIN n_pairs_per_cluster :
                  first <= n_pairs_per_cluster[k] /\ n_pairs_per_cluster[k] <= last
            /\ last - first <= 1
            /\ pairs % clusters # 0 => first < last

\* A partition with a remainder, where an earlier count is below a later one.
C8_Witness ==
    /\ pc = "gp_loop"
    /\ clusters >= 2
    /\ pairs % clusters # 0
    /\ n_pairs_per_cluster[1] < n_pairs_per_cluster[clusters]

\* C9 as stated: for every n_clusters >= 1 no row of the last partitioned
\* cluster is returned, so its count is missing from the rows returned.
\* (Violated: with one cluster, that cluster is sampled and all its rows are
\* returned.)
C9_LastDropped ==
    (Returned /\ clusters >= 1) =>
        /\ \A k \in DOMAIN sampled :
              sampled[k] = LastCluster => phis_all[k] = <<>>
        /\ Len(phis) = pairs - n_pairs_per_cluster[clusters]

\* C9 as amended: for n_clusters >= 2 the last cluster is not sampled and its
\* count is missing from the rows returned; for n_clusters = 1 the single
\* cluster is sampled, nothing is raised and all n_pairs rows are returned.
C9_LastDroppedUnlessSingle ==
    /\ (Returned /\ clusters >= 2) =>
          /\ \A k \in DOMAIN sampled : sampled[k] # LastCluster
          /\ Len(phis) = pairs - n_pairs_per_cluster[clusters]
    /\ clusters = 1 => err = "none"
    /\ (Returned /\ clusters = 1) =>
          /\ sampled = <<0>>
          /\ Len(phis) = pairs

\* Rows were allotted to the last of several clusters and are not returned.
C9_Witness ==
    /\ Returned
    /\ clusters >= 2
    /\ n_pairs_per_cluster[clusters] > 0
    /\ Len(phis) = pairs - n_pairs_per_cluster[clusters]
    /\ Len(phis) < pairs

\* C10: for pairs >= 1 and clusters >= 1 the distances averaged by generate
\* are not empty, so avg_dist is not the mean of an empty array.  (Violated:
\* generate 1 --clusters=2 averages no distance.)
C10_MeanGuarded ==
    (Averaged /\ pairs >= 1 /\ clusters >= 1) =>
        /\ distances # <<>>
        /\ ~avg_dist.nan

=============================================================================
